---- MODULE Spec2Model ----
(***************************************************************************)
(* Gesture / voice interaction controller of sketch.js (the later variant, *)
(* lines 569-1321): the per-frame tick draw() -> drawUI(), the recognized- *)
(* phrase callback showResult(), the face detector callback gotFaces() and *)
(* the camera becoming ready.  Times are milliseconds as millis() returns  *)
(* them.  Strings are sequences of one-character strings, so that          *)
(* String.split and toLowerCase are modelled by what they do.              *)
(***************************************************************************)
EXTENDS Integers, Sequences, FiniteSets, TLC

\* ------------------------------------------------------------------ bounds
\* millis() never exceeds MaxTime in a run of Spec or SpecPhrase.
MaxTime == 24000
\* Longest token sequence handed to the synonym matcher in SpecMatch.
MaxWords == 3
\* Frames drawn in a run of SpecSeq.
MaxSamples == 7
\* captureWindows stops counting here.
MaxWindows == 2
\* Longest phrase handed to the tokenizer in SpecSplit, in characters.
MaxChars == 3
\* Largest coordinate of a point handed to the measures in SpecMeasure.
MaxCoord == 11
\* millis() never exceeds MaxNodTime in a run of SpecNod.
MaxNodTime == 2000

\* Milliseconds that may elapse between two consecutive events of Spec: none
\* to speak of, or a pause longer than the re-arm cooldown and shorter than
\* the maximum open duration (two such pauses exceed it).
TimeSteps == {0, 6000}
\* Frame period of SpecSeq, which samples the mouth gap every 100 ms.
SampleSteps == {100}
\* Frame period of SpecNod: two frames apart is exactly the nod cooldown.
NodSteps == {250}

\* ------------------------------------------------------- program constants
OpenThreshold == 3
RearmCooldown == 500
MaxOpenDuration == 10000
NodSpeed == 10
NodCooldown == 500

\* ------------------------------------------------------------------ strings
Upper == <<"A","B","C","D","E","F","G","H","I","J","K","L","M",
           "N","O","P","Q","R","S","T","U","V","W","X","Y","Z">>
Lower == <<"a","b","c","d","e","f","g","h","i","j","k","l","m",
           "n","o","p","q","r","s","t","u","v","w","x","y","z">>

\* One character of String.prototype.toLowerCase.
toLowerChar(c) ==
  IF \E i \in 1..Len(Upper) : Upper[i] = c
  THEN Lower[CHOOSE i \in 1..Len(Upper) : Upper[i] = c]
  ELSE c

\* String.prototype.toLowerCase.
toLowerCase(s) == [i \in 1..Len(s) |-> toLowerChar(s[i])]

\* The grave accent (U+0060), which a TLA+ string cannot hold: the one
\* character of the model that is written by name.
Backtick == "backtick"

\* The character class of the regular expression /[ +\-_`'\.\?!]+/.
Delimiters == {" ", "+", "-", "_", Backtick, "'", ".", "?", "!"}

\* Mutant of isDelimiter: '+' is left out of the character class.
isDelimiterNoPlus(c) == c \in (Delimiters \ {"+"})

isDelimiter(c) == c \in Delimiters

\* resultString.split(/[ +\-_`'\.\?!]+/): the pieces between maximal runs of
\* delimiters; a leading or trailing run leaves an empty first or last piece.
\* scan[i] is the state after i characters: the pieces closed so far and the
\* piece being read.
splitWords(s) ==
  LET scan[i \in 0..Len(s)] ==
        IF i = 0 THEN [acc |-> <<>>, cur |-> <<>>]
        ELSE LET prev == scan[i - 1]
             IN  IF isDelimiter(s[i])
                 THEN IF i > 1 /\ isDelimiter(s[i - 1])
                      THEN prev
                      ELSE [acc |-> Append(prev.acc, prev.cur), cur |-> <<>>]
                 ELSE [acc |-> prev.acc, cur |-> Append(prev.cur, s[i])]
      end == scan[Len(s)]
  IN  Append(end.acc, end.cur)

\* nameEntry.split(" "): a piece between every two single spaces.
splitSpace(s) ==
  LET scan[i \in 0..Len(s)] ==
        IF i = 0 THEN [acc |-> <<>>, cur |-> <<>>]
        ELSE LET prev == scan[i - 1]
             IN  IF s[i] = " "
                 THEN [acc |-> Append(prev.acc, prev.cur), cur |-> <<>>]
                 ELSE [acc |-> prev.acc, cur |-> Append(prev.cur, s[i])]
      end == scan[Len(s)]
  IN  Append(end.acc, end.cur)

\* ---------------------------------------------------------------- catalogue
\* crtTVNames after preload(): 18 entries of three synonyms each.
crtTVNames ==
  << << <<"d", "a", "f", "f", "o", "d", "i", "l">>,
        <<"n", "a", "r", "c", "i", "s", "s", "u", "s">>,
        <<"j", "o", "n", "q", "u", "i", "l">> >>,
     << <<"d", "a", "i", "s", "y">>,
        <<"o", "x", "-", "e", "y", "e">>,
        <<"b", "e", "l", "l", "i", "s">> >>,
     << <<"f", "o", "r", "g", "e", "t", " ", "m", "e", " ", "n", "o", "t">>,
        <<"m", "y", "o", "s", "o", "t", "i", "s">>,
        <<"m", "o", "u", "s", "e", " ", "e", "a", "r">> >>,
     << <<"h", "i", "b", "i", "s", "c", "u", "s">>,
        <<"r", "o", "s", "e", " ", "o", "f", " ", "s", "h", "a", "r", "o", "n">>,
        <<"r", "o", "s", "e", "m", "a", "l", "l", "o", "w">> >>,
     << <<"i", "r", "i", "s">>,
        <<"f", "l", "a", "g", " ", "i", "r", "i", "s">>,
        <<"s", "w", "o", "r", "d", " ", "l", "i", "l", "y">> >>,
     << <<"j", "a", "s", "m", "i", "n", "e">>,
        <<"j", "e", "s", "s", "a", "m", "i", "n", "e">>,
        <<"c", "a", "r", "o", "l", "i", "n", "a", " ", "j", "a", "s", "m", "i", "n", "e">> >>,
     << <<"l", "a", "v", "e", "n", "d", "e", "r">>,
        <<"l", "a", "v", "a", "n", "d", "u", "l", "a">>,
        <<"p", "u", "r", "p", "l", "e", " ", "s", "a", "g", "e">> >>,
     << <<"l", "i", "l", "y", " ", "o", "f", " ", "t", "h", "e", " ", "v", "a", "l", "l", "e", "y">>,
        <<"c", "o", "n", "v", "a", "l", "l", "a", "r", "i", "a">>,
        <<"m", "a", "y", " ", "l", "i", "l", "y">> >>,
     << <<"l", "o", "t", "u", "s">>,
        <<"w", "a", "t", "e", "r", " ", "l", "i", "l", "y">>,
        <<"s", "a", "c", "r", "e", "d", " ", "l", "o", "t", "u", "s">> >>,
     << <<"m", "o", "r", "n", "i", "n", "g", " ", "g", "l", "o", "r", "y">>,
        <<"i", "p", "o", "m", "o", "e", "a">>,
        <<"b", "i", "n", "d", "w", "e", "e", "d">> >>,
     << <<"o", "r", "c", "h", "i", "d">>,
        <<"o", "r", "c", "h", "i", "d", "a", "c", "e", "a", "e">>,
        <<"p", "h", "a", "l", "a", "e", "n", "o", "p", "s", "i", "s">> >>,
     << <<"p", "e", "o", "n", "y">>,
        <<"p", "a", "e", "o", "n", "i", "a">>,
        <<"p", "i", "o", "n", "e", "y">> >>,
     << <<"p", "o", "p", "p", "y">>,
        <<"p", "a", "p", "a", "v", "e", "r">>,
        <<"c", "o", "r", "n", " ", "p", "o", "p", "p", "y">> >>,
     << <<"r", "o", "s", "e">>,
        <<"r", "o", "s", "a">>,
        <<"q", "u", "e", "e", "n", " ", "o", "f", " ", "f", "l", "o", "w", "e", "r", "s">> >>,
     << <<"s", "u", "n", "f", "l", "o", "w", "e", "r">>,
        <<"h", "e", "l", "i", "a", "n", "t", "h", "u", "s">>,
        <<"s", "u", "n", " ", "d", "i", "s", "k">> >>,
     << <<"t", "u", "l", "i", "p">>,
        <<"t", "u", "l", "i", "p", "a">>,
        <<"l", "a", "d", "y", " ", "t", "u", "l", "i", "p">> >>,
     << <<"v", "i", "o", "l", "e", "t">>,
        <<"v", "i", "o", "l", "a">>,
        <<"s", "w", "e", "e", "t", " ", "v", "i", "o", "l", "e", "t">> >>,
     << <<"w", "i", "s", "t", "e", "r", "i", "a">>,
        <<"w", "i", "s", "t", "a", "r", "i", "a">>,
        <<"g", "l", "y", "c", "i", "n", "e">> >> >>

\* crtTVImages.length (one image is pushed per catalogue entry).
crtTVImagesLength == Len(crtTVNames)

\* ------------------------------------------------------------ phrase matcher
\* The inner for-k loop: the first position k >= wordIndex (1-based) whose
\* word equals part ignoring case, or 0 when there is none.
findPart(tokens, part, wordIndex) ==
  LET hits == {k \in wordIndex..Len(tokens) :
                 toLowerCase(tokens[k]) = toLowerCase(part)}
  IN  IF hits = {} THEN 0
      ELSE CHOOSE k \in hits : \A h \in hits : k <= h

\* Mutant of nextWordIndex: every part is looked for from the first word.
nextWordIndexRestart(k) == 1

\* The scan resumes after the word that matched the previous part.
nextWordIndex(k) == k + 1

\* The for-part loop: wordIndex[p] is wordIndex (1-based) after the first p
\* parts were found in order, 0 once a part was not found.
partsFound(tokens, nameParts) ==
  LET wordIndex[p \in 0..Len(nameParts)] ==
        IF p = 0 THEN 1
        ELSE LET before == wordIndex[p - 1]
             IN  IF before = 0 THEN 0
                 ELSE LET k == findPart(tokens, nameParts[p], before)
                      IN  IF k = 0 THEN 0 ELSE nextWordIndex(k)
  IN  wordIndex[Len(nameParts)] # 0

\* allPartsFound for one synonym (nameEntry) against the words.
matchName(tokens, name) == partsFound(tokens, splitSpace(name))

\* Entry i (1-based) has a synonym that matches.
entryMatches(tokens, i) ==
  \E j \in 1..Len(crtTVNames[i]) : matchName(tokens, crtTVNames[i][j])

\* Mutant of scanEntries: the loops do not break, the last match wins.
scanEntriesLast(tokens) ==
  LET hits == {i \in 1..Len(crtTVNames) : entryMatches(tokens, i)}
  IN  IF hits = {} THEN -1
      ELSE (CHOOSE i \in hits : \A h \in hits : h <= i) - 1

\* The for-i loop with its breaks: the first matching entry, as the 0-based
\* foundIndex, or -1.
scanEntries(tokens) ==
  LET hits == {i \in 1..Len(crtTVNames) : entryMatches(tokens, i)}
  IN  IF hits = {} THEN -1
      ELSE (CHOOSE i \in hits : \A h \in hits : i <= h) - 1

findIndex(resultStr) == scanEntries(splitWords(resultStr))

\* ---------------------------------------------------------------- utterances
\* "I would like to see a rose please"
uSeeARose ==
  <<"I", " ", "w", "o", "u", "l", "d", " ", "l", "i", "k", "e", " ", "t", "o", " ", "s", "e", "e", " ", "a", " ", "r", "o", "s", "e", " ", "p", "l", "e", "a", "s", "e">>
\* "hello there"
uHello ==
  <<"h", "e", "l", "l", "o", " ", "t", "h", "e", "r", "e">>
\* "sharon rose"
uSharonRose ==
  <<"s", "h", "a", "r", "o", "n", " ", "r", "o", "s", "e">>
\* "rose garden"
uRoseGarden ==
  <<"r", "o", "s", "e", " ", "g", "a", "r", "d", "e", "n">>
\* "rose of sharon"
uRoseOfSharon ==
  <<"r", "o", "s", "e", " ", "o", "f", " ", "s", "h", "a", "r", "o", "n">>
\* "Water Lily"
uWaterLily ==
  <<"W", "a", "t", "e", "r", " ", "L", "i", "l", "y">>
\* "ox-eye"
uOxEye ==
  <<"o", "x", "-", "e", "y", "e">>
\* "a+rose"
uPlus ==
  <<"a", "+", "r", "o", "s", "e">>
\* ""
uEmpty ==
  <<>>
\* "the rose of old sharon"
uOldSharon ==
  <<"t", "h", "e", " ", "r", "o", "s", "e", " ", "o", "f", " ", "o", "l", "d", " ", "s", "h", "a", "r", "o", "n">>
\* "what?"
uWhat ==
  <<"w", "h", "a", "t", "?">>

\* Phrases the speech engine may deliver in SpecPhrase.
Utterances ==
  {uSeeARose, uHello, uSharonRose, uRoseGarden, uRoseOfSharon, uWaterLily, uOxEye, uPlus, uEmpty, uOldSharon, uWhat}

\* Phrases the speech engine may deliver in Spec: one that names a flower,
\* one that names none.
MainUtterances == {uSeeARose, uHello}

\* Tokens and synonyms handed to the synonym matcher in SpecMatch.
wRose == <<"r", "o", "s", "e">>
wRoseCap == <<"R", "o", "s", "e">>
wOf == <<"o", "f">>
wSharon == <<"s", "h", "a", "r", "o", "n">>
wGarden == <<"g", "a", "r", "d", "e", "n">>
Vocabulary == {wRose, wRoseCap, wOf, wSharon, wGarden}
nRose == <<"r", "o", "s", "e">>
nRoseOfSharon == <<"r", "o", "s", "e", " ", "o", "f", " ", "s", "h", "a", "r", "o", "n">>
nRoseRose == <<"r", "o", "s", "e", " ", "r", "o", "s", "e">>
NameEntries == {nRose, nRoseOfSharon, nRoseRose}

\* Every synonym the catalogue declares.
Synonyms ==
  {crtTVNames[i][j] : i \in 1..Len(crtTVNames), j \in 1..3}

\* foundIndex for each phrase the engine may deliver, computed once.
foundIndexOf == [str \in Utterances \cup Synonyms |-> findIndex(str)]

\* ------------------------------------------------------- geometric measures
\* A mapped keypoint, or null when the detector gave none.
Point(px, py) == [null |-> FALSE, x |-> px, y |-> py]
NullPoint == [null |-> TRUE, x |-> 0, y |-> 0]

\* The value of a measurement that is null.
NullNumber == -1

abs(n) == IF n < 0 THEN -n ELSE n

\* Math.sqrt on the perfect squares the input points below produce.
Sqrt(n) == CHOOSE r \in 0..n : r * r = n

\* Mutant of measureDistance: only the first point is tested for null.
measureDistanceFirstOnly(point1, point2) ==
  IF point1.null THEN NullNumber
  ELSE LET dx == point2.x - point1.x
           dy == point2.y - point1.y
       IN  Sqrt(dx * dx + dy * dy)

measureDistance(point1, point2) ==
  IF point1.null \/ point2.null THEN NullNumber
  ELSE LET dx == point2.x - point1.x
           dy == point2.y - point1.y
       IN  Sqrt(dx * dx + dy * dy)

measureVelocity(currentPoint, previousPoint) ==
  IF currentPoint.null \/ previousPoint.null
  THEN [x |-> 0, y |-> 0, speed |-> 0]
  ELSE LET vx == currentPoint.x - previousPoint.x
           vy == currentPoint.y - previousPoint.y
       IN  [x |-> vx, y |-> vy, speed |-> Sqrt(vx * vx + vy * vy)]

\* Keypoints the detector may report for a face: upper lip, lower lip (a gap
\* of 3 is at the threshold, 4 above it), nose tip (a move of 11 is a nod).
UpperLipPoints == {Point(0, 0)}
LowerLipPoints == {Point(0, 3), Point(0, 4)}
NosePoints == {Point(0, 0), Point(0, 11)}

\* ------------------------------------------------------------------- state
VARIABLES
  clock,           \* the last value millis() returned
  camReady,        \* cam.ready
  faces,           \* faces.length
  facePointData5,  \* nose tip of the last frame with a face
  distance3_4,     \* gap between the lips
  velocity5,       \* nose velocity
  crtTVIndex,      \* index of the flower on display
  pg,              \* the status graphic
  mouthOpen,       \* a capture window is active
  mouthClose,
  mouthOpenTime,
  mouthCloseTime,
  velocityYTime,
  resultValue,     \* myRec.resultValue
  resultString,    \* myRec.resultString
  recCall,         \* request the last step made to the speech engine
  captureWindows,  \* start requests of the engine not yet closed
  windowEndTime,   \* when the last capture window ended
  windowEndBy,     \* what ended it: "none" so far, "timeout" or "phrase"
  recPending,      \* the engine was started and has a result to deliver
  outcome,         \* outcome the last step resolved, "none" if it did not
  feedback,        \* feedback that step emitted for the outcome
  words,           \* SpecMatch: token sequence under test
  nameEntry,       \* SpecMatch: synonym under test
  allPartsFound,   \* SpecMatch: the matcher's verdict
  gaps,            \* SpecSeq: gap measured in each frame drawn so far
  opens,           \* SpecSeq: closed -> open transitions seen
  closes,          \* SpecSeq: open -> closed transitions seen
  utterance,       \* SpecSplit: phrase under test
  splitResult,     \* SpecSplit: its tokens, <<>> until it is split
  argPoint1,          \* SpecMeasure: first argument of the measures
  argPoint2,          \* SpecMeasure: second argument of the measures
  measured,        \* SpecMeasure: the measures were taken
  distance,        \* SpecMeasure: what measureDistance returned
  velocity         \* SpecMeasure: what measureVelocity returned

gestureVars == <<mouthOpen, mouthClose, mouthOpenTime, mouthCloseTime>>
sampleVars == <<facePointData5, distance3_4, velocity5>>
engineVars == <<resultValue, resultString>>
ghostVars == <<captureWindows, windowEndTime, windowEndBy, recPending>>
stepVars == <<recCall, outcome, feedback>>
matchVars == <<words, nameEntry, allPartsFound>>
seqVars == <<gaps, opens, closes>>
splitVars == <<utterance, splitResult>>
measureVars == <<argPoint1, argPoint2, measured, distance, velocity>>
pureVars == <<splitVars, measureVars>>

vars == <<clock, camReady, faces, sampleVars, crtTVIndex, pg, gestureVars,
          velocityYTime, engineVars, stepVars, ghostVars, matchVars, seqVars,
          pureVars>>

\* The program's variables, for the steps that only apply a pure function.
programVars == <<clock, camReady, faces, sampleVars, crtTVIndex, pg,
                 gestureVars, velocityYTime, engineVars, stepVars, ghostVars>>

\* The step resolved no outcome and emitted no feedback.
NoFeedback == [graphic |-> "none", message |-> "none"]

\* floor(random(crtTVImages.length)) may return any of these.
RandomIndices == 0..(crtTVImagesLength - 1)

\* State after the declarations at the top of the file and setup().
ProgramInit ==
  /\ clock = 0
  /\ camReady = FALSE
  /\ faces = 0
  /\ facePointData5 = NullPoint
  /\ distance3_4 = 0
  /\ velocity5 = [x |-> 0, y |-> 0, speed |-> 0]
  /\ crtTVIndex = 0
  /\ pg = "undefined"
  /\ mouthOpen = FALSE
  /\ mouthClose = FALSE
  /\ mouthOpenTime = 0
  /\ mouthCloseTime = 0
  /\ velocityYTime = 0
  /\ resultValue = FALSE
  /\ resultString = <<>>
  /\ recCall = "none"
  /\ captureWindows = 0
  /\ windowEndTime = 0
  /\ windowEndBy = "none"
  /\ recPending = FALSE
  /\ outcome = "none"
  /\ feedback = NoFeedback

MatchIdle ==
  /\ words = <<>>
  /\ nameEntry = <<>>
  /\ allPartsFound = "pending"

SeqIdle ==
  /\ gaps = <<>>
  /\ opens = 0
  /\ closes = 0

SplitIdle ==
  /\ utterance = <<>>
  /\ splitResult = <<>>

MeasureIdle ==
  /\ argPoint1 = NullPoint
  /\ argPoint2 = NullPoint
  /\ measured = FALSE
  /\ distance = 0
  /\ velocity = [x |-> 0, y |-> 0, speed |-> 0]

Init == ProgramInit /\ MatchIdle /\ SeqIdle /\ SplitIdle /\ MeasureIdle

\* ------------------------------------------------------------------ drawUI
\* distance3_4 > 3 (null > 3 is false).
gapAboveThreshold(d) == d # NullNumber /\ d > OpenThreshold

\* Mutants of startGuard: the idle check, or the cooldown, is missing.
startGuardWhileOpen(mo, nowTime, mct) == (nowTime - mct) > RearmCooldown
startGuardNoCooldown(mo, nowTime, mct) == ~mo
\* Mutant of startGuard: the cooldown is compared with the wrong constant.
startGuardLongCooldown(mo, nowTime, mct) ==
  ~mo /\ (nowTime - mct) > MaxOpenDuration

\* Line 1134: the window may start.
startGuard(mo, nowTime, mct) == ~mo /\ (nowTime - mct) > RearmCooldown

\* Mutant of clearCloseGuard: mouthClose is never cleared.
clearCloseGuardNever(mc, nowTime, mct) == FALSE

\* Line 1143.
clearCloseGuard(mc, nowTime, mct) == mc /\ (nowTime - mct) > RearmCooldown

\* Mutant of timeoutGuard: the open time is compared with the wrong constant.
timeoutGuardShort(mo, nowTime, mot) == mo /\ (nowTime - mot) > RearmCooldown

\* Line 1154: the window has been open for too long.
timeoutGuard(mo, nowTime, mot) == mo /\ (nowTime - mot) > MaxOpenDuration

\* Mutant of nodGuard: a nod is taken while a window is active.
nodGuardWhileOpen(mo, vy, nowTime, vyt) ==
  abs(vy) > NodSpeed /\ (nowTime - vyt) > NodCooldown

\* Mutant of nodGuard: a nod is taken as soon as the cooldown is reached.
nodGuardAtCooldown(mo, vy, nowTime, vyt) ==
  ~mo /\ abs(vy) > NodSpeed /\ (nowTime - vyt) >= NodCooldown

\* Mutant of nodGuard: the speed of the nose is not looked at.
nodGuardAnySpeed(mo, vy, nowTime, vyt) ==
  ~mo /\ (nowTime - vyt) > NodCooldown

\* Line 1177: a nod steps the selection.
nodGuard(mo, vy, nowTime, vyt) ==
  ~mo /\ abs(vy) > NodSpeed /\ (nowTime - vyt) > NodCooldown

\* Mutant of nodIndex: the step does not wrap at the ends of the catalogue.
nodIndexNoWrap(idx, vy) == IF vy > 0 THEN idx + 1 ELSE idx - 1

\* Lines 1179-1183.
nodIndex(idx, vy) ==
  IF vy > 0 THEN (idx + 1) % crtTVImagesLength
  ELSE (idx - 1 + crtTVImagesLength) % crtTVImagesLength

\* Mutant of noFace: the branch without a face is never taken.
noFaceNever(n) == FALSE

\* Line 1126: the frame shows no face.
noFace(n) == n = 0

\* Mutant of timeoutFeedback: the timeout has a graphic and a message of its
\* own.
timeoutFeedbackDistinct ==
  [graphic |-> "pgTimedOut", message |-> "Capture timed out"]

\* Lines 1158 and 1162: the graphic the timeout branch assigns and the
\* message it logs.
timeoutFeedback ==
  [graphic |-> "pgMissHear", message |-> "No flower name match found"]

\* Lines 1152-1153: a frame with the gap at or below the threshold stamps the
\* close time.
closedFrameTime(nowTime, mct) == nowTime

\* Mutant of restoreGraphic: the graphic is left as it is.
restoreGraphicNever(g, mo, nowTime, mot) == g

\* Lines 1169-1175: the graphic of a face that has come back into view, or
\* of a miss more than 10000 ms after the opening, gives way to the graphic
\* of the gesture.
restoreGraphic(g, mo, nowTime, mot) ==
  IF g = "pgShowFace"
     \/ (g = "pgMissHear" /\ (nowTime - mot) > MaxOpenDuration)
  THEN IF mo THEN "pgOpen" ELSE "pgClosed"
  ELSE g

\* The step asks nothing of the engine and resolves no outcome.
noOutcome ==
  /\ recCall' = "none"
  /\ outcome' = "none"
  /\ feedback' = NoFeedback

\* Lines 1131-1184, the branch with a face.
faceBranch(nowTime) ==
  LET above == gapAboveThreshold(distance3_4')
      doStart == above /\ startGuard(mouthOpen, nowTime, mouthCloseTime)
      mo1 == IF doStart THEN TRUE ELSE mouthOpen
      mot1 == IF doStart THEN nowTime ELSE mouthOpenTime
      pg1 == IF doStart THEN "pgOpen"
             ELSE IF ~above /\ ~mouthOpen /\ ~mouthClose THEN "pgClosed"
             ELSE pg
      mc1 == IF above
             THEN IF clearCloseGuard(mouthClose, nowTime, mouthCloseTime)
                  THEN FALSE ELSE mouthClose
             ELSE TRUE
      mct1 == IF above THEN mouthCloseTime
              ELSE closedFrameTime(nowTime, mouthCloseTime)
      doStop == ~above /\ timeoutGuard(mo1, nowTime, mot1)
      mo2 == IF doStop THEN FALSE ELSE mo1
      pg2 == IF doStop THEN timeoutFeedback.graphic ELSE pg1
      pg3 == restoreGraphic(pg2, mo2, nowTime, mot1)
      doNod == nodGuard(mo2, velocity5'.y, nowTime, velocityYTime)
  IN  /\ mouthOpen' = mo2
      /\ mouthOpenTime' = mot1
      /\ mouthClose' = mc1
      /\ mouthCloseTime' = mct1
      /\ pg' = pg3
      /\ velocityYTime' = IF doNod THEN nowTime ELSE velocityYTime
      /\ \E idx2 \in (IF doStop THEN RandomIndices ELSE {crtTVIndex}) :
           crtTVIndex' = IF doNod THEN nodIndex(idx2, velocity5'.y) ELSE idx2
      /\ recCall' = IF doStart THEN "start" ELSE IF doStop THEN "stop" ELSE "none"
      /\ outcome' = IF doStop THEN "TimedOut" ELSE "none"
      /\ feedback' = IF doStop THEN timeoutFeedback ELSE NoFeedback
      /\ recPending' = IF doStart THEN TRUE ELSE recPending
      /\ captureWindows' = IF doStart
                           THEN IF captureWindows < MaxWindows
                                THEN captureWindows + 1 ELSE captureWindows
                           ELSE IF doStop THEN 0 ELSE captureWindows
      /\ windowEndTime' = IF doStop THEN nowTime ELSE windowEndTime
      /\ windowEndBy' = IF doStop THEN "timeout" ELSE windowEndBy

\* drawUI() at time nowTime, after draw() has sampled the frame.
drawUI(nowTime) ==
  IF ~camReady
  THEN /\ pg' = "pgStarting"
       /\ noOutcome
       /\ UNCHANGED <<gestureVars, velocityYTime, crtTVIndex, ghostVars>>
  ELSE IF noFace(faces)
  THEN /\ pg' = "pgShowFace"
       /\ noOutcome
       /\ UNCHANGED <<gestureVars, velocityYTime, crtTVIndex, ghostVars>>
  ELSE faceBranch(nowTime)

\* draw(): one frame at time nowTime.  With a face, the keypoints p3, p4
\* (lips) and p5 (nose) are sampled and measured; then drawUI runs.
drawAt(nowTime, p3, p4, p5) ==
  /\ clock' = nowTime
  /\ IF faces > 0
     THEN /\ facePointData5' = p5
          /\ distance3_4' = measureDistance(p3, p4)
          /\ velocity5' = measureVelocity(p5, facePointData5)
     ELSE UNCHANGED sampleVars
  /\ drawUI(nowTime)
  /\ UNCHANGED <<camReady, faces, engineVars>>

\* Keypoints are read only from a frame with a face.
Draw ==
  \E dt \in TimeSteps :
    /\ clock + dt <= MaxTime
    /\ IF faces > 0
       THEN \E p3 \in UpperLipPoints, p4 \in LowerLipPoints, p5 \in NosePoints :
              drawAt(clock + dt, p3, p4, p5)
       ELSE drawAt(clock + dt, NullPoint, NullPoint, NullPoint)
    /\ UNCHANGED <<matchVars, seqVars, pureVars>>

\* -------------------------------------------------------------- showResult
\* Mutant of resultCloseTime: the callback leaves the close time alone.
resultCloseTimeStale(nowTime, mct) == mct

\* Line 1302: the callback stamps the close time.
resultCloseTime(nowTime, mct) == nowTime

\* Mutant of resultMouthOpen: the callback leaves the window active.
resultMouthOpenKept(mo) == mo

\* Line 1300: the callback closes the window.
resultMouthOpen(mo) == FALSE

\* Lines 1304 and 1306: the graphic the callback assigns and the message it
\* logs when an entry matches.
matchedFeedback ==
  [graphic |-> "pgClosed", message |-> "Displaying flower at index"]

\* Lines 1308-1309: the same when no entry matches.
notFoundFeedback ==
  [graphic |-> "pgMissHear", message |-> "No flower name match found"]

\* Lines 1257-1313: the engine has set resultValue and resultString and
\* calls back at time nowTime.
showResult(nowTime, value, str) ==
  /\ clock' = nowTime
  /\ resultValue' = value
  /\ resultString' = str
  /\ recCall' = "none"
  /\ recPending' = FALSE
  /\ IF value
     THEN LET foundIndex == foundIndexOf[str]
          IN  /\ mouthOpen' = resultMouthOpen(mouthOpen)
              /\ mouthClose' = TRUE
              /\ mouthCloseTime' = resultCloseTime(nowTime, mouthCloseTime)
              /\ outcome' = IF foundIndex # -1 THEN "Matched" ELSE "NotFound"
              /\ feedback' = IF foundIndex # -1 THEN matchedFeedback
                                                ELSE notFoundFeedback
              /\ pg' = feedback'.graphic
              /\ \E idx \in (IF foundIndex # -1 THEN {foundIndex}
                                                  ELSE RandomIndices) :
                   crtTVIndex' = idx
              /\ captureWindows' = 0
              /\ windowEndTime' = IF mouthOpen THEN nowTime ELSE windowEndTime
              /\ windowEndBy' = IF mouthOpen THEN "phrase" ELSE windowEndBy
              /\ UNCHANGED mouthOpenTime
     ELSE /\ outcome' = "none"
          /\ feedback' = NoFeedback
          /\ UNCHANGED <<gestureVars, pg, crtTVIndex, captureWindows,
                         windowEndTime, windowEndBy>>
  /\ UNCHANGED <<camReady, faces, sampleVars, velocityYTime>>

\* The engine calls back once it was started and has a result to deliver.
ShowResult ==
  \E dt \in TimeSteps, value \in {TRUE}, str \in MainUtterances :
    /\ recPending
    /\ clock + dt <= MaxTime
    /\ showResult(clock + dt, value, str)
    /\ UNCHANGED <<matchVars, seqVars, pureVars>>

\* ------------------------------------------------------ camera and detector
\* cam.onReady fires.
CamReady ==
  /\ ~camReady
  /\ camReady' = TRUE
  /\ noOutcome
  /\ UNCHANGED <<clock, faces, sampleVars, crtTVIndex, pg, gestureVars,
                 velocityYTime, engineVars, ghostVars, matchVars, seqVars,
                 pureVars>>

\* gotFaces(results): the detector, started once the camera is ready,
\* reports no face or one face (maxFaces: 1).
GotFaces ==
  \E n \in 0..1 :
    /\ camReady
    /\ faces' = n
    /\ noOutcome
    /\ UNCHANGED <<clock, camReady, sampleVars, crtTVIndex, pg, gestureVars,
                   velocityYTime, engineVars, ghostVars, matchVars, seqVars,
                   pureVars>>

Next == Draw \/ ShowResult \/ CamReady \/ GotFaces

Spec == Init /\ [][Next]_vars

\* ------------------------------------------------------------- SpecPhrase
\* The callback alone, over every phrase of Utterances.
PhraseResult ==
  \E dt \in TimeSteps, value \in BOOLEAN, str \in Utterances :
    /\ clock + dt <= MaxTime
    /\ showResult(clock + dt, value, str)
    /\ UNCHANGED <<matchVars, seqVars, pureVars>>

NextPhrase == PhraseResult

SpecPhrase == Init /\ [][NextPhrase]_vars

\* ------------------------------------------------------------ SpecSynonym
\* The callback alone, the phrase being exactly one of the synonyms the
\* catalogue declares.
SynonymResult ==
  \E dt \in TimeSteps, str \in Synonyms :
    /\ clock + dt <= MaxTime
    /\ showResult(clock + dt, TRUE, str)
    /\ UNCHANGED <<matchVars, seqVars, pureVars>>

NextSynonym == SynonymResult

SpecSynonym == Init /\ [][NextSynonym]_vars

\* -------------------------------------------------------------- SpecMatch
\* The synonym matcher as a pure function: Init draws the words and the
\* synonym, Match applies the matcher.
WordSeqs == UNION {[1..n -> Vocabulary] : n \in 0..MaxWords}

InitMatch ==
  /\ ProgramInit
  /\ SeqIdle
  /\ SplitIdle
  /\ MeasureIdle
  /\ words \in WordSeqs
  /\ nameEntry \in NameEntries
  /\ allPartsFound = "pending"

Match ==
  /\ allPartsFound = "pending"
  /\ allPartsFound' = IF matchName(words, nameEntry) THEN "found"
                                                     ELSE "notFound"
  /\ UNCHANGED <<programVars, words, nameEntry, seqVars, pureVars>>

NextMatch == Match

SpecMatch == InitMatch /\ [][NextMatch]_vars

\* ---------------------------------------------------------------- SpecSeq
\* Frames drawn every 100 ms from the initial state, for the properties that
\* turn on tenths of a second.  gaps records the gap measured in each frame
\* (NullNumber for a frame without a face); opens and closes count the
\* transitions of mouthOpen.
SeqLowerLipPoints == {Point(0, 1), Point(0, 4)}

countTransitions ==
  /\ opens' = opens + (IF ~mouthOpen /\ mouthOpen' THEN 1 ELSE 0)
  /\ closes' = closes + (IF mouthOpen /\ ~mouthOpen' THEN 1 ELSE 0)

SeqDraw ==
  \E dt \in SampleSteps :
    /\ Len(gaps) < MaxSamples
    /\ IF faces > 0
       THEN \E p4 \in SeqLowerLipPoints :
              /\ drawAt(clock + dt, Point(0, 0), p4, Point(0, 0))
              /\ gaps' = Append(gaps, distance3_4')
       ELSE /\ drawAt(clock + dt, NullPoint, NullPoint, NullPoint)
            /\ gaps' = Append(gaps, NullNumber)
    /\ countTransitions
    /\ UNCHANGED <<matchVars, pureVars>>

\* A phrase that names a flower arrives between two frames.
SeqResult ==
  /\ recPending
  /\ showResult(clock, TRUE, uSeeARose)
  /\ countTransitions
  /\ UNCHANGED <<matchVars, gaps, pureVars>>

NextSeq == SeqDraw \/ SeqResult \/ CamReady \/ GotFaces

SpecSeq == Init /\ [][NextSeq]_vars

\* ---------------------------------------------------------------- SpecNod
\* Frames drawn every 250 ms from the initial state, the nose moving or at
\* rest and the mouth open or shut, and phrases arriving between frames: for
\* the properties of the nod step that turn on its cooldown.
NodDraw ==
  \E dt \in NodSteps :
    /\ clock + dt <= MaxNodTime
    /\ IF faces > 0
       THEN \E p4 \in SeqLowerLipPoints, p5 \in NosePoints :
              drawAt(clock + dt, Point(0, 0), p4, p5)
       ELSE drawAt(clock + dt, NullPoint, NullPoint, NullPoint)
    /\ UNCHANGED <<matchVars, seqVars, pureVars>>

NodResult ==
  \E str \in MainUtterances :
    /\ recPending
    /\ showResult(clock, TRUE, str)
    /\ UNCHANGED <<matchVars, seqVars, pureVars>>

NextNod == NodDraw \/ NodResult \/ CamReady \/ GotFaces

SpecNod == Init /\ [][NextNod]_vars

\* -------------------------------------------------------------- SpecSplit
\* The tokenizer as a pure function: Init draws the phrase from the strings
\* of at most MaxChars characters over a letter of each case, every
\* character of the regular expression's class, and a comma and a tab, which
\* are outside it; Split applies the tokenizer.
Chars ==
  {"a", "B", " ", "+", "-", "_", Backtick, "'", ".", "?", "!", ",", "\t"}

Phrases == UNION {[1..n -> Chars] : n \in 0..MaxChars}

InitSplit ==
  /\ ProgramInit
  /\ MatchIdle
  /\ SeqIdle
  /\ MeasureIdle
  /\ utterance \in Phrases
  /\ splitResult = <<>>

Split ==
  /\ splitResult = <<>>
  /\ splitResult' = splitWords(utterance)
  /\ UNCHANGED <<programVars, matchVars, seqVars, utterance, measureVars>>

NextSplit == Split

SpecSplit == InitSplit /\ [][NextSplit]_vars

\* ------------------------------------------------------------ SpecMeasure
\* The measures as pure functions: Init draws the two points, null
\* included; Measure applies measureDistance and measureVelocity to them.
PointInputs == {Point(0, py) : py \in 0..MaxCoord} \cup {NullPoint}

InitMeasure ==
  /\ ProgramInit
  /\ MatchIdle
  /\ SeqIdle
  /\ SplitIdle
  /\ argPoint1 \in PointInputs
  /\ argPoint2 \in PointInputs
  /\ measured = FALSE
  /\ distance = 0
  /\ velocity = [x |-> 0, y |-> 0, speed |-> 0]

Measure ==
  /\ ~measured
  /\ measured' = TRUE
  /\ distance' = measureDistance(argPoint1, argPoint2)
  /\ velocity' = measureVelocity(argPoint1, argPoint2)
  /\ UNCHANGED <<programVars, matchVars, seqVars, splitVars, argPoint1, argPoint2>>

NextMeasure == Measure

SpecMeasure == InitMeasure /\ [][NextMeasure]_vars


\* ================================================================== claims
\* A step of draw() with the camera ready and a face in view.
FaceFrame == camReady /\ faces > 0 /\ Draw

\* C1: the speech engine is asked to start only in a step that finds no
\* capture window active (mouthOpen false, no start request outstanding) and
\* that marks the window active; so a window close lies between any two start
\* requests and at most one window is active at a time.
C1_StartOnlyWhenIdle ==
  [][/\ recCall' = "start" =>
          (~mouthOpen /\ mouthOpen' /\ captureWindows = 0)
     /\ captureWindows' <= 1
     /\ (captureWindows' = 1) = mouthOpen']_vars

\* A second window has been started after an earlier one was closed.
C1_Witness ==
  recCall = "start" /\ mouthOpen /\ captureWindows = 1 /\ windowEndBy # "none"

\* C2: once a capture window has ended, by a phrase or by timeout, every
\* later start request comes more than 500 ms after that end.
C2_StartAfterCooldown ==
  [][(recCall' = "start" /\ windowEndBy # "none") =>
       (clock' - windowEndTime) > RearmCooldown]_vars

\* A window is started after the previous one timed out.
C2_Witness == recCall = "start" /\ windowEndBy = "timeout"

\* C3: when the mouth gap has stayed above the threshold in every frame
\* since the window opened and no phrase has arrived (the close timestamp
\* still precedes the open timestamp), a frame with a face and the gap still
\* above the threshold that comes more than 10000 ms after the opening
\* force-closes the window (engine stop, mouthOpen false).
C3_TimeoutWhileGapOpen ==
  [][(/\ FaceFrame
      /\ mouthOpen
      /\ mouthCloseTime < mouthOpenTime
      /\ gapAboveThreshold(distance3_4')
      /\ (clock' - mouthOpenTime) > MaxOpenDuration) =>
       (~mouthOpen' /\ recCall' = "stop")]_vars

\* C4: the engine is stopped only while a window is active and more than
\* 10000 ms after the window's open timestamp, and that timestamp is written
\* only by the step that starts the window.
C4_NoEarlyTimeout ==
  [][/\ recCall' = "stop" =>
          (/\ mouthOpen
           /\ ~mouthOpen'
           /\ (clock' - mouthOpenTime) > MaxOpenDuration)
     /\ mouthOpenTime' # mouthOpenTime =>
          (recCall' = "start" /\ ~mouthOpen /\ mouthOpenTime' = clock')
     /\ (mouthOpen /\ mouthOpen') => mouthOpenTime' = mouthOpenTime]_vars

\* A window has just been force-closed.
C4_Witness ==
  /\ recCall = "stop"
  /\ ~mouthOpen
  /\ windowEndBy = "timeout"
  /\ (clock - mouthOpenTime) > MaxOpenDuration

\* A frame of SpecSeq with the camera ready and a face in view.
SeqFaceFrame == camReady /\ faces > 0 /\ SeqDraw

\* The sequence [1,1,4,4,1,1] was sampled, one frame every 100 ms from the
\* closed initial state, a face in view in every frame and no phrase heard.
SequenceFed == gaps = <<1, 1, 4, 4, 1, 1>> /\ ~resultValue

\* C5 as stated: the sequence yields exactly one open transition and exactly
\* one close transition.
C5_OneOpenOneClose == SequenceFed => (opens = 1 /\ closes = 1)

\* C5 as amended: the sequence yields no open transition and no close
\* transition: every frame with the gap at or below the threshold stamps the
\* close time, and the gap is above the threshold for only 200 ms after it.
C5_NoTransition == SequenceFed => (opens = 0 /\ closes = 0 /\ ~mouthOpen)

C5_Witness == SequenceFed /\ clock = 600

\* C6 as stated: a frame with a face that finds the gesture closed, the gap
\* above the threshold and at least 500 ms since the close timestamp opens
\* the window in that frame: mouthOpen, open timestamp = frame time, engine
\* start requested.
C6_OpensAtCooldown ==
  [][(/\ SeqFaceFrame
      /\ ~mouthOpen
      /\ gapAboveThreshold(distance3_4')
      /\ (clock' - mouthCloseTime) >= RearmCooldown) =>
       (mouthOpen' /\ mouthOpenTime' = clock' /\ recCall' = "start")]_vars

\* C6 as amended: the same with more than 500 ms since the close timestamp.
C6_OpensAfterCooldown ==
  [][(/\ SeqFaceFrame
      /\ ~mouthOpen
      /\ gapAboveThreshold(distance3_4')
      /\ (clock' - mouthCloseTime) > RearmCooldown) =>
       (mouthOpen' /\ mouthOpenTime' = clock' /\ recCall' = "start")]_vars

\* A frame has just opened the window.
C6_Witness ==
  /\ recCall = "start"
  /\ mouthOpen
  /\ mouthOpenTime = clock
  /\ gapAboveThreshold(distance3_4)
  /\ (clock - mouthCloseTime) > RearmCooldown

\* C7: while a window is active, a frame with a face whose gap is at or
\* below the threshold and that comes no more than 10000 ms after the opening
\* requests nothing of the engine, keeps the window active and leaves
\* crtTVIndex alone; and a window ends only by the timeout stop or by a
\* recognized phrase.
C7_CloseDoesNotStop ==
  [][/\ (/\ FaceFrame
          /\ mouthOpen
          /\ ~gapAboveThreshold(distance3_4')
          /\ (clock' - mouthOpenTime) <= MaxOpenDuration) =>
          (recCall' = "none" /\ mouthOpen' /\ crtTVIndex' = crtTVIndex)
     /\ (mouthOpen /\ ~mouthOpen') =>
          \/ recCall' = "stop" /\ (clock' - mouthOpenTime) > MaxOpenDuration
          \/ ShowResult]_vars

\* The mouth was closed during a window that is still active and not yet
\* timed out.
C7_Witness ==
  /\ mouthOpen
  /\ mouthClose
  /\ mouthCloseTime > mouthOpenTime
  /\ ~gapAboveThreshold(distance3_4)
  /\ clock = mouthCloseTime
  /\ (clock - mouthOpenTime) <= MaxOpenDuration

\* C8: a frame without a detected face leaves mouthOpen, mouthClose, both
\* timestamps and crtTVIndex alone and requests nothing of the engine, also
\* when the window has been active for more than 10000 ms.
C8_NoFaceHolds ==
  [][(Draw /\ camReady /\ faces = 0) =>
       (/\ UNCHANGED <<mouthOpen, mouthClose, mouthOpenTime, mouthCloseTime,
                       crtTVIndex>>
        /\ recCall' = "none")]_vars

\* A frame without a face was drawn with the window active for more than
\* 10000 ms.
C8_Witness ==
  /\ faces = 0
  /\ pg = "pgShowFace"
  /\ mouthOpen
  /\ (clock - mouthOpenTime) > MaxOpenDuration

\* The parts occur in the tokens as an ordered subsequence, ignoring case:
\* some strictly increasing choice of positions carries part i at position i.
IsOrderedSubsequence(parts, tokens) ==
  \E f \in [1..Len(parts) -> 1..Len(tokens)] :
    /\ \A i \in 1..Len(parts), j \in 1..Len(parts) : i < j => f[i] < f[j]
    /\ \A i \in 1..Len(parts) :
         toLowerCase(tokens[f[i]]) = toLowerCase(parts[i])

\* C9: the matcher counts a synonym as matched exactly when its space-
\* separated words occur in the token sequence as an ordered subsequence,
\* ignoring case; [sharon, rose] and [rose, garden] do not match
\* 'rose of sharon', and a longer sequence containing 'rose' matches 'rose'.
C9_MatchIsOrderedSubsequence ==
  allPartsFound # "pending" =>
    /\ (allPartsFound = "found")
         = IsOrderedSubsequence(splitSpace(nameEntry), words)
    /\ (nameEntry = nRoseOfSharon /\ words \in {<<wSharon, wRose>>,
                                                 <<wRose, wGarden>>})
         => allPartsFound = "notFound"
    /\ (nameEntry = nRose /\ \E k \in 1..Len(words) : words[k] = wRose)
         => allPartsFound = "found"

\* The matcher has rejected 'rose of sharon' for [sharon, rose].
C9_Witness ==
  /\ allPartsFound = "notFound"
  /\ nameEntry = nRoseOfSharon
  /\ words = <<wSharon, wRose>>

\* Catalogue indices (0-based) of the entries with a synonym whose words are
\* an ordered subsequence of the phrase's tokens.
matchingEntriesOf ==
  [str \in Utterances |->
     {i \in 0..(Len(crtTVNames) - 1) :
        \E j \in 1..Len(crtTVNames[i + 1]) :
          IsOrderedSubsequence(splitSpace(crtTVNames[i + 1][j]),
                               splitWords(str))}]

\* C10: after a recognized phrase with at least one matching entry,
\* crtTVIndex is the smallest matching catalogue index; the NotFound fallback
\* (pgMissHear) is taken only when no entry matches.
C10_FirstMatchWins ==
  resultValue =>
    LET matching == matchingEntriesOf[resultString]
    IN  /\ matching # {} =>
             (/\ crtTVIndex \in matching
              /\ \A i \in matching : crtTVIndex <= i
              /\ pg = "pgClosed")
        /\ pg = "pgMissHear" => matching = {}

\* 'rose of sharon' matches entries 3 (hibiscus) and 13 (rose); 3 is shown.
C10_Witness ==
  /\ resultValue
  /\ resultString = uRoseOfSharon
  /\ matchingEntriesOf[resultString] = {3, 13}
  /\ crtTVIndex = 3

\* The tokens of s when it is split at the maximal runs of characters of D,
\* stated position by position: a character outside D belongs to the token
\* numbered one more than the runs of D that begin before it, and there is
\* one token more than there are runs.
runsBegunBy(s, i, D) ==
  Cardinality({j \in 1..i : s[j] \in D /\ (j = 1 \/ s[j - 1] \notin D)})

TokensBy(s, D) ==
  [t \in 1..(runsBegunBy(s, Len(s), D) + 1) |->
     LET pos == {i \in 1..Len(s) :
                   s[i] \notin D /\ runsBegunBy(s, i, D) = t - 1}
     IN  IF pos = {} THEN <<>>
         ELSE SubSeq(s, CHOOSE i \in pos : \A j \in pos : i <= j,
                        CHOOSE i \in pos : \A j \in pos : j <= i)]

\* C11 as stated: the phrase is split at exactly the space, hyphen,
\* underscore, backtick, apostrophe, period, question mark and exclamation
\* mark; runs separate tokens and every other character, '+' for one, stays
\* inside its token.
C11_SplitAtStatedSet ==
  splitResult # <<>> =>
    splitResult = TokensBy(utterance,
                           {" ", "-", "_", Backtick, "'", ".", "?", "!"})

\* C11 as amended: the phrase is split at exactly the space, plus sign,
\* hyphen, underscore, backtick, apostrophe, period, question mark and
\* exclamation mark; runs separate tokens and every other character, a tab
\* or a comma for one, stays inside its token.
C11_SplitAtClassOfRegExp ==
  splitResult # <<>> =>
    splitResult = TokensBy(utterance,
                           {" ", "+", "-", "_", Backtick, "'", ".", "?", "!"})

\* 'a+<tab>' was split at the plus sign and the tab stayed in its token.
C11_Witness ==
  /\ utterance = <<"a", "+", "\t">>
  /\ splitResult = << <<"a">>, <<"\t">> >>

\* C12: in every reachable state crtTVIndex is an integer of
\* [0, crtTVImages.length): after a matched phrase, after the random pick of
\* a phrase that matches nothing or of a timeout, and after a nod.
C12_IndexInCatalogue ==
  crtTVIndex \in Int /\ 0 <= crtTVIndex /\ crtTVIndex < crtTVImagesLength

\* The random pick of a timeout has chosen the last entry of the catalogue.
C12_Witness ==
  /\ outcome = "TimedOut"
  /\ recCall = "stop"
  /\ crtTVIndex = crtTVImagesLength - 1

\* One of the two steps resolved TimedOut, the other NotFound.
TimedOutAndNotFound ==
  \/ outcome = "TimedOut" /\ outcome' = "NotFound"
  \/ outcome = "NotFound" /\ outcome' = "TimedOut"

C14_OnlyOutcomeWritesIndex ==
  [][crtTVIndex' # crtTVIndex => outcome' # "none"]_vars

\* A frame with a face that takes a nod step: no window active, the nose
\* faster than 10 along y, more than 500 ms since the last nod step.
NodStep ==
  /\ FaceFrame
  /\ ~mouthOpen'
  /\ abs(velocity5'.y) > NodSpeed
  /\ (clock' - velocityYTime) > NodCooldown
  /\ velocityYTime' = clock'

\* C14 as amended: crtTVIndex changes only in a step that resolves a capture
\* outcome or in a frame that takes a nod step; no other step (a frame
\* without outcome or nod, a frame without a face, the detector's or the
\* camera's callback) changes it.
C14_OutcomeOrNodWritesIndex ==
  [][crtTVIndex' # crtTVIndex => (outcome' # "none" \/ NodStep)]_vars

\* A nod step has moved the selection from the first entry to the second
\* without any outcome.
C14_Witness ==
  /\ outcome = "none"
  /\ recCall = "none"
  /\ faces > 0
  /\ velocityYTime = clock
  /\ velocity5.y > NodSpeed
  /\ crtTVIndex = 1
  /\ windowEndBy = "none"

\* C15: an open event (engine start, mouthOpen set) occurs only from the
\* closed state, and a close event (the timeout stop, or a phrase that
\* closes the window and resolves an outcome) only from the open state.
C15_EdgeTriggered ==
  [][/\ recCall' = "start" => (~mouthOpen /\ mouthOpen')
     /\ recCall' = "stop" => (mouthOpen /\ ~mouthOpen')
     /\ (ShowResult /\ outcome' # "none") => (mouthOpen /\ ~mouthOpen')]_vars

\* C16: a phrase that arrives while a window is active closes the window
\* and stamps the close time in that one step, and a window the timeout
\* closes was started more than 500 ms after the last phrase closed one: no
\* later frame fires the timeout for a window a phrase has closed.
C16_PhraseClosesForGood ==
  [][/\ (ShowResult /\ mouthOpen /\ resultValue') =>
          (/\ ~mouthOpen'
           /\ mouthClose'
           /\ mouthCloseTime' = clock'
           /\ recCall' = "none")
     /\ (recCall' = "stop" /\ windowEndBy = "phrase") =>
          (mouthOpenTime - windowEndTime) > RearmCooldown]_vars

\* A frame with the gap at or below the threshold came more than 10000 ms
\* after the opening of a window that a phrase had closed, and stopped
\* nothing.
C16_Witness ==
  /\ windowEndBy = "phrase"
  /\ windowEndTime >= mouthOpenTime
  /\ faces > 0
  /\ clock > windowEndTime
  /\ mouthCloseTime = clock
  /\ ~gapAboveThreshold(distance3_4)
  /\ (clock - mouthOpenTime) > MaxOpenDuration
  /\ ~mouthOpen
  /\ recCall = "none"
  /\ outcome = "none"

\* C17: measureDistance returns null and measureVelocity returns the zero
\* vector whenever either argument is null.
C17_NullPropagates ==
  (measured /\ (argPoint1.null \/ argPoint2.null)) =>
    /\ distance = NullNumber
    /\ velocity = [x |-> 0, y |-> 0, speed |-> 0]

\* The measures were taken of a point and null.
C17_Witness ==
  /\ measured
  /\ argPoint1 = Point(0, 4)
  /\ argPoint2 = NullPoint
  /\ distance = NullNumber
  /\ velocity.speed = 0

\* C18: at the end of the frame that force-closes a window by timeout, the
\* graphic handed to the renderer is pgMissHear.
C18_TimeoutShowsMissHear ==
  [][outcome' = "TimedOut" => pg' = "pgMissHear"]_vars

\* C19 as stated: mouthOpen and mouthClose are never both true and never
\* both false.
C19_ExactlyOneFlag == mouthOpen # mouthClose

\* C19 as amended: mouthOpen and mouthClose are both false only while the
\* gesture is in its initial state (no window started, no close stamped);
\* from then on at least one of them is true, and both are true only while a
\* window is active in which the mouth has closed (the close timestamp is
\* not before the open timestamp).
C19_FlagsAfterInit ==
  /\ (~mouthOpen /\ ~mouthClose) =>
       (/\ mouthOpenTime = 0
        /\ mouthCloseTime = 0
        /\ windowEndBy = "none"
        /\ ~recPending)
  /\ (mouthOpen /\ mouthClose) => mouthCloseTime >= mouthOpenTime

\* In a second window the mouth has closed and the window is still active.
C19_Witness ==
  /\ mouthOpen
  /\ mouthClose
  /\ mouthCloseTime >= mouthOpenTime
  /\ windowEndBy = "timeout"

\* C20: once a window has been closed, a phrase that arrives before a new
\* window starts changes neither crtTVIndex, nor the graphic, nor the close
\* timestamp.
C20_LatePhraseIgnored ==
  [][(ShowResult /\ ~mouthOpen /\ windowEndBy # "none") =>
       UNCHANGED <<crtTVIndex, pg, mouthCloseTime>>]_vars

\* C21: a phrase that is exactly a synonym declared for catalogue entry i
\* is matched and selects entry i (0-based index i - 1), for every entry and
\* every synonym.
C21_EverySynonymSelectsItsEntry ==
  resultValue =>
    \A i \in 1..Len(crtTVNames) : \A j \in 1..Len(crtTVNames[i]) :
      resultString = crtTVNames[i][j] =>
        (outcome = "Matched" /\ crtTVIndex = i - 1)

\* C22: at the end of every frame with a face, the graphic is pgOpen if and
\* only if a capture window is active, whatever frames, losses and
\* recoveries of the face and recognized phrases came before.
C22_ListeningIffWindowActive ==
  [][FaceFrame => ((pg' = "pgOpen") <=> mouthOpen')]_vars

\* A frame after the one that started it shows pgOpen for a window that is
\* active, a phrase having closed an earlier window.
C22_Witness ==
  /\ camReady
  /\ faces > 0
  /\ mouthOpen
  /\ pg = "pgOpen"
  /\ recCall = "none"
  /\ clock > mouthOpenTime
  /\ windowEndBy = "phrase"

\* A frame took a nod step: it stamped velocityYTime, or it changed
\* crtTVIndex without resolving an outcome.
NodTaken ==
  /\ (NodDraw \/ Draw)
  /\ \/ velocityYTime' # velocityYTime
     \/ (crtTVIndex' # crtTVIndex /\ outcome' = "none")

\* C23: a nod step is taken only in a frame with a face that leaves no
\* capture window active and starts none; it moves crtTVIndex by exactly +1
\* (nose moving down the y axis) or -1 modulo the size of the catalogue,
\* from the random pick when the same frame has timed a window out; and it
\* comes more than 500 ms after the nod step before it, whose time
\* velocityYTime holds.
C23_NodStepsOneEntryAfterCooldown ==
  [][NodTaken =>
       (/\ camReady /\ faces > 0
        /\ ~mouthOpen'
        /\ recCall' # "start"
        /\ abs(velocity5'.y) > NodSpeed
        /\ outcome' = "none" =>
             (/\ ~mouthOpen
              /\ crtTVIndex' = IF velocity5'.y > 0
                               THEN (crtTVIndex + 1) % crtTVImagesLength
                               ELSE (crtTVIndex + crtTVImagesLength - 1)
                                      % crtTVImagesLength)
        /\ (clock' - velocityYTime) > NodCooldown
        /\ velocityYTime' = clock')]_vars

\* The second nod step, 750 ms after the first, has wrapped the selection
\* from the last entry to the first, the first nod step having wrapped it
\* from the first to the last.
C23_Witness ==
  /\ clock = 1500
  /\ velocityYTime = 1500
  /\ velocity5.y > NodSpeed
  /\ crtTVIndex = 0
  /\ ~resultValue
  /\ ~mouthOpen
  /\ mouthOpenTime = 0

====
